---- MODULE Spec2Model ----
(***************************************************************************)
(* solface: resolution of the compound (tuple) parameters of a decoded    *)
(* ABI into named struct definitions (interface.go, abi.go).              *)
(*                                                                         *)
(* Go strings that the code inspects or builds (parameter names, types,   *)
(* internal types, synthesized type names) are sequences of one-character *)
(* strings, so that HasPrefix, HasSuffix, TrimPrefix, Split and the "%d"  *)
(* formatting are computed character by character.  Item metadata that is *)
(* only copied (item type, item name, state mutability) is kept as plain  *)
(* strings.  Go slices are sequences, indexed from 1.                     *)
(***************************************************************************)
EXTENDS Integers, Sequences, FiniteSets, TLC

VARIABLES
    rawJSON,      \* the JSON document handed to Decode, if there was one
    abi,          \* the DecodedABI handed to ResolveCompounds
    pc,           \* loop of ResolveCompounds: "events", "functions", "errors", "done"
    j,            \* index of the item being rebuilt
    i,            \* index of the next input of that item
    k,            \* index of the next output of that item (functions)
    newItem,      \* newEventItem / newFunctionItem / newErrorItem
    typeCounter,  \* var typeCounter int
    nameCounter,  \* var nameCounter int
    result,       \* the DecodedABIWithCompundTypes under construction
    call,         \* the latest CompoundSingleValue call: argument and return values
    round,        \* 1: resolving a decoded ABI, 2: resolving the enriched ABI of round 1,
                  \* 3: resolving the ABI of round 1 again
    prev,         \* the result of round 1 (during rounds 2 and 3)
    calls         \* the CompoundSingleValue calls ResolveCompounds has made in this run

vars == <<rawJSON, abi, pc, j, i, k, newItem, typeCounter, nameCounter, result, call, round, prev, calls>>

-----------------------------------------------------------------------------
(* Bounds of the model. *)

\* Largest number of Value nodes in the parameter of a single-parameter ABI.
MaxNodes == 4
\* Largest number of events, of functions and of errors in a repeated ABI.
MaxItems == 2
\* Largest number of inputs (and outputs) per item in a repeated ABI.
MaxParams == 2
\* Largest number of function inputs in an ABI of hinted parameters.
MaxHinted == 9
\* Largest number of items in a JSON document handed to Decode.
MaxRaw == 3

-----------------------------------------------------------------------------
(* Strings. *)

Digits == <<"0", "1", "2", "3", "4", "5", "6", "7", "8", "9">>
Letters == {"a", "b", "c", "d", "e", "f", "g", "h", "i", "j", "k", "l", "m",
            "n", "o", "p", "q", "r", "s", "t", "u", "v", "w", "x", "y", "z",
            "A", "B", "C", "D", "E", "F", "G", "H", "I", "J", "K", "L", "M",
            "N", "O", "P", "Q", "R", "S", "T", "U", "V", "W", "X", "Y", "Z"}
DigitChars == {Digits[d] : d \in 1..10}

\* fmt.Sprintf("%d", n) for n >= 0
RECURSIVE Dec(_)
Dec(n) == IF n < 10 THEN <<Digits[n + 1]>>
          ELSE Dec(n \div 10) \o <<Digits[(n % 10) + 1]>>

HasPrefix(s, prefix) ==
    /\ Len(s) >= Len(prefix)
    /\ SubSeq(s, 1, Len(prefix)) = prefix

HasSuffix(s, suffix) ==
    /\ Len(s) >= Len(suffix)
    /\ SubSeq(s, Len(s) - Len(suffix) + 1, Len(s)) = suffix

TrimPrefix(s, prefix) ==
    IF HasPrefix(s, prefix) THEN SubSeq(s, Len(prefix) + 1, Len(s)) ELSE s

\* strings.Split(s, sep) for a one-character separator: the pieces between
\* the separators, Len = number of separators + 1.
RECURSIVE SplitFrom(_, _, _, _)
SplitFrom(s, sep, at, piece) ==
    IF at > Len(s) THEN <<piece>>
    ELSE IF s[at] = sep THEN <<piece>> \o SplitFrom(s, sep, at + 1, <<>>)
    ELSE SplitFrom(s, sep, at + 1, Append(piece, s[at]))

Split(s, sep) == SplitFrom(s, sep, 1, <<>>)

EmptyString == <<>>
StrArray == <<"[", "]">>
StrStruct == <<"s", "t", "r", "u", "c", "t">>
StrStructSpace == <<"s", "t", "r", "u", "c", "t", " ">>
StrCompound == <<"C", "o", "m", "p", "o", "u", "n", "d">>
StrAttribute == <<"A", "t", "t", "r", "i", "b", "u", "t", "e">>
StrTuple == <<"t", "u", "p", "l", "e">>
StrTupleArray == <<"t", "u", "p", "l", "e", "[", "]">>
StrUint256 == <<"u", "i", "n", "t", "2", "5", "6">>
StrUint256Array == <<"u", "i", "n", "t", "2", "5", "6", "[", "]">>

-----------------------------------------------------------------------------
(* ABI model (abi.go). *)

\* type Value struct
MkValue(name, type, internalType, components) ==
    [Name |-> name, Type |-> type, InternalType |-> internalType,
     Components |-> components]

\* var result Value
ZeroValue == MkValue(EmptyString, EmptyString, EmptyString, <<>>)

\* Faulty variants of IsCompoundType: '>=' for '>', and detection by the type string.
IsCompoundTypeOffByOne(v) == Len(v.Components) >= 0
IsCompoundTypeByType(v) == Len(v.Components) > 0 \/ HasPrefix(v.Type, StrTuple)

\* func (v Value) IsCompoundType() bool
\* Faulty variant of IsCompoundType: a parameter is compound only when it has
\* components and a tuple type.
IsCompoundTypeTupleOnly(v) == Len(v.Components) > 0 /\ HasPrefix(v.Type, StrTuple)

IsCompoundType(v) == Len(v.Components) > 0

-----------------------------------------------------------------------------
(* Fresh names (interface.go). *)

\* Faulty variant of GenerateName: the counter is not advanced.
GenerateNameNoIncrement(nc) ==
    [result |-> StrAttribute \o Dec(nc), nameCounter |-> nc]

\* func GenerateName(nameCounter *int) string
GenerateName(nc) ==
    [result |-> StrAttribute \o Dec(nc), nameCounter |-> nc + 1]

\* func ParseInternalType(internalType string) string
ParseInternalType(internalType) ==
    IF ~HasPrefix(internalType, StrStruct) THEN StrCompound
    ELSE LET structQualifiedName == TrimPrefix(internalType, StrStructSpace)
             structNameComponents == Split(structQualifiedName, ".")
         IN  structNameComponents[Len(structNameComponents)]

\* Faulty variant of GenerateType: the counter is not advanced.
GenerateTypeNoIncrement(tc, internalType) ==
    [result |-> ParseInternalType(internalType) \o Dec(tc), typeCounter |-> tc]

\* func GenerateType(typeCounter *int, internalType string) string
GenerateType(tc, internalType) ==
    [result |-> ParseInternalType(internalType) \o Dec(tc), typeCounter |-> tc + 1]

-----------------------------------------------------------------------------
(* CompoundSingleValue (interface.go). *)

\* nameCounter *int: nil, or a pointer to a counter holding n
NilPtr == [nil |-> TRUE]
Ptr(n) == [nil |-> FALSE, at |-> n]

\* Faulty variant of AppendSubTypes: a child's types are put in front.
AppendSubTypesInFront(newTypes, subTypes) == subTypes \o newTypes

\* newTypes = append(newTypes, subTypes...)
AppendSubTypes(newTypes, subTypes) ==
    IF Len(subTypes) > 0 THEN newTypes \o subTypes ELSE newTypes

\* Faulty variant of MemberName: with a name counter, every member is given
\* a placeholder.
MemberNameAlwaysGenerated(component, namePtr) ==
    IF ~namePtr.nil
    THEN [result |-> StrAttribute \o Dec(namePtr.at), namePtr |-> Ptr(namePtr.at + 1)]
    ELSE [result |-> component.Name, namePtr |-> namePtr]

\* Faulty variant of MemberName: no placeholder is generated.
MemberNameVerbatim(component, namePtr) ==
    [result |-> component.Name, namePtr |-> namePtr]

\* memberName := component.Name; if memberName == "" && nameCounter != nil
\* { memberName = GenerateName(nameCounter) }
MemberName(component, namePtr) ==
    IF component.Name = EmptyString /\ ~namePtr.nil
    THEN LET g == GenerateName(namePtr.at)
         IN  [result |-> g.result, namePtr |-> Ptr(g.nameCounter)]
    ELSE [result |-> component.Name, namePtr |-> namePtr]

\* for i, component := range updatedComponents { ... compound.Members[i] = ... }
RECURSIVE BuildMembers(_, _, _, _)
BuildMembers(updatedComponents, at, members, namePtr) ==
    IF at > Len(updatedComponents)
    THEN [members |-> members, namePtr |-> namePtr]
    ELSE LET m == MemberName(updatedComponents[at], namePtr)
         IN  BuildMembers(updatedComponents, at + 1,
                 Append(members, [Name |-> m.result, Value |-> updatedComponents[at]]),
                 m.namePtr)

\* newTypes = append(newTypes, compound)
AppendCompound(newTypes, compound) == Append(newTypes, compound)

\* Faulty variant of ResultType: the array suffix is dropped.
ResultTypeNoSuffix(val, typeName) == typeName

\* result.Type = compound.TypeName; if strings.HasSuffix(val.Type, "[]")
\* { result.Type = fmt.Sprintf("%s[]", compound.TypeName) }
ResultType(val, typeName) ==
    IF HasSuffix(val.Type, StrArray) THEN typeName \o StrArray ELSE typeName

\* Faulty variant of ResultValue: the replacement is a copy of val with a new type.
ResultValueCopy(val, typeName) == [val EXCEPT !.Type = typeName]

\* var result Value; result.Name = val.Name; ...; result.Type = ...
ResultValue(val, typeName) ==
    [ZeroValue EXCEPT !.Name = val.Name, !.Type = ResultType(val, typeName)]

RECURSIVE CompoundSingleValue(_, _, _)
RECURSIVE ResolveComponents(_, _, _, _, _, _)

\* for _, component := range val.Components { ... }
ResolveComponents(components, at, updatedComponents, newTypes, tc, namePtr) ==
    IF at > Len(components)
    THEN [updatedComponents |-> updatedComponents, newTypes |-> newTypes,
          typeCounter |-> tc, namePtr |-> namePtr]
    ELSE LET sub == CompoundSingleValue(components[at], tc, namePtr)
         IN  ResolveComponents(components, at + 1,
                 Append(updatedComponents, sub.value),
                 AppendSubTypes(newTypes, sub.newTypes),
                 sub.typeCounter, sub.namePtr)

\* func CompoundSingleValue(val Value, typeCounter, nameCounter *int) (Value, []CompoundType)
\* The counters behind the two pointers are returned with the results.
CompoundSingleValue(val, tc, namePtr) ==
    IF ~IsCompoundType(val)
    THEN [value |-> val, newTypes |-> <<>>, typeCounter |-> tc, namePtr |-> namePtr]
    ELSE LET sub == ResolveComponents(val.Components, 1, <<>>, <<>>, tc, namePtr)
             gen == GenerateType(sub.typeCounter, val.InternalType)
             mem == BuildMembers(sub.updatedComponents, 1, <<>>, sub.namePtr)
             compound == [TypeName |-> gen.result, Members |-> mem.members]
         IN  [value |-> ResultValue(val, compound.TypeName),
              newTypes |-> AppendCompound(sub.newTypes, compound),
              typeCounter |-> gen.typeCounter,
              namePtr |-> mem.namePtr]

-----------------------------------------------------------------------------
(* ABI items (abi.go) and the items ResolveCompounds starts from. *)

\* type EventArgument struct { Value; Indexed bool }
MkEventArgument(value, indexed) == [Value |-> value, Indexed |-> indexed]

\* type EventItem struct
MkEventItem(name, inputs, anonymous) ==
    [Type |-> "event", Name |-> name, Inputs |-> inputs, Anonymous |-> anonymous]

\* type FunctionItem struct
MkFunctionItem(name, inputs, outputs, stateMutability) ==
    [Type |-> "function", Name |-> name, Inputs |-> inputs, Outputs |-> outputs,
     StateMutability |-> stateMutability]

\* type ErrorItem struct
MkErrorItem(name, inputs) == [Type |-> "error", Name |-> name, Inputs |-> inputs]

\* type DecodedABI struct
MkABI(events, functions, errors) ==
    [Events |-> events, Functions |-> functions, Errors |-> errors]

\* make([]EventItem, n), make([]FunctionItem, n), make([]ErrorItem, n): zero values
ZeroEventItem == [Type |-> "", Name |-> "", Inputs |-> <<>>, Anonymous |-> FALSE]
ZeroFunctionItem ==
    [Type |-> "", Name |-> "", Inputs |-> <<>>, Outputs |-> <<>>, StateMutability |-> ""]
ZeroErrorItem == [Type |-> "", Name |-> "", Inputs |-> <<>>]
NoItem == [Type |-> "none"]

\* Faulty variant of NewEventItem: the Anonymous flag is not copied.
NewEventItemNotAnonymous(eventItem) ==
    [Type |-> eventItem.Type, Name |-> eventItem.Name,
     Inputs |-> [n \in 1..Len(eventItem.Inputs) |-> MkEventArgument(ZeroValue, FALSE)],
     Anonymous |-> FALSE]

\* newEventItem := EventItem{Type: ..., Name: ..., Anonymous: ...}
\* newEventItem.Inputs = make([]EventArgument, len(eventItem.Inputs))
NewEventItem(eventItem) ==
    [Type |-> eventItem.Type, Name |-> eventItem.Name,
     Inputs |-> [n \in 1..Len(eventItem.Inputs) |-> MkEventArgument(ZeroValue, FALSE)],
     Anonymous |-> eventItem.Anonymous]

\* Faulty variant of NewFunctionItem: Outputs is made as long as Inputs.
NewFunctionItemOutputsAsInputs(functionItem) ==
    [Type |-> functionItem.Type, Name |-> functionItem.Name,
     Inputs |-> [n \in 1..Len(functionItem.Inputs) |-> ZeroValue],
     Outputs |-> [n \in 1..Len(functionItem.Inputs) |-> ZeroValue],
     StateMutability |-> functionItem.StateMutability]

\* newFunctionItem := FunctionItem{Type: ..., Name: ..., StateMutability: ...}
\* newFunctionItem.Inputs = make(...); newFunctionItem.Outputs = make(...)
NewFunctionItem(functionItem) ==
    [Type |-> functionItem.Type, Name |-> functionItem.Name,
     Inputs |-> [n \in 1..Len(functionItem.Inputs) |-> ZeroValue],
     Outputs |-> [n \in 1..Len(functionItem.Outputs) |-> ZeroValue],
     StateMutability |-> functionItem.StateMutability]

\* newErrorItem := ErrorItem{Type: ..., Name: ...}; newErrorItem.Inputs = make(...)
NewErrorItem(errorItem) ==
    [Type |-> errorItem.Type, Name |-> errorItem.Name,
     Inputs |-> [n \in 1..Len(errorItem.Inputs) |-> ZeroValue]]

-----------------------------------------------------------------------------
(* The loops of ResolveCompounds: where control is after the item before   *)
(* index jj of a loop has been stored.                                     *)

\* return result
AtReturn == [pc |-> "done", j |-> 0, newItem |-> NoItem]

\* Faulty variant of AtErrors: the loop over the errors is not entered.
AtErrorsSkipped(a, jj) == [pc |-> "done", j |-> 0, newItem |-> NoItem]

\* for j, errorItem := range abi.Errors
AtErrors(a, jj) ==
    IF jj <= Len(a.Errors)
    THEN [pc |-> "errors", j |-> jj, newItem |-> NewErrorItem(a.Errors[jj])]
    ELSE AtReturn

\* for j, functionItem := range abi.Functions
AtFunctions(a, jj) ==
    IF jj <= Len(a.Functions)
    THEN [pc |-> "functions", j |-> jj, newItem |-> NewFunctionItem(a.Functions[jj])]
    ELSE AtErrors(a, 1)

\* for j, eventItem := range abi.Events
AtEvents(a, jj) ==
    IF jj <= Len(a.Events)
    THEN [pc |-> "events", j |-> jj, newItem |-> NewEventItem(a.Events[jj])]
    ELSE AtFunctions(a, 1)

\* Faulty variant of OutputNamePtr: outputs are given the name counter too.
OutputNamePtrShared(nc) == Ptr(nc)

\* The arguments ResolveCompounds passes for the name counter.
InputNamePtr(nc) == Ptr(nc)
OutputNamePtr(nc) == NilPtr

\* nameCounter after a call that was given namePtr
NameCounterAfter(nc, namePtr) == IF namePtr.nil THEN nc ELSE namePtr.at

\* Faulty variant of AppendNewTypes: a type whose member values equal those of
\* a type already listed is not added.
SameMemberValues(s, t) ==
    /\ Len(s.Members) = Len(t.Members)
    /\ \A m \in 1..Len(s.Members) : s.Members[m].Value = t.Members[m].Value
AppendNewTypesDeduplicated(compoundTypes, newTypes) ==
    compoundTypes \o
    SelectSeq(newTypes,
              LAMBDA t : ~\E n \in 1..Len(compoundTypes) :
                              SameMemberValues(compoundTypes[n], t))

\* Faulty variant of AppendNewTypes: the new types are put in front.
AppendNewTypesInFront(compoundTypes, newTypes) == newTypes \o compoundTypes

\* result.CompoundTypes = append(result.CompoundTypes, newTypes...)
AppendNewTypes(compoundTypes, newTypes) == compoundTypes \o newTypes

\* Faulty variant of FreshCounter: the counter of the previous run is kept.
FreshCounterCarried(old) == old

\* var typeCounter, nameCounter int: the counters are local variables, so a
\* call starts from zero whatever an earlier call left behind
FreshCounter(old) == 0

NoCall == [kind |-> "none"]

\* The locals of one iteration of a parameter loop.
MkCall(kind, val, r, tc, nc) ==
    [kind |-> kind, item |-> j, index |-> IF kind = "functionOutput" THEN k ELSE i,
     val |-> val, value |-> r.value, newTypes |-> r.newTypes,
     typeCounterBefore |-> tc, nameCounterBefore |-> nc]

\* var typeCounter, nameCounter int; var result ...; result.OriginalABI = abi;
\* result.EnrichedABI.Events = make(...); ...; result.CompoundTypes = make(...)
ResolveStart(a) ==
    [typeCounter |-> 0,
     nameCounter |-> 0,
     result |-> [OriginalABI |-> a,
                 CompoundTypes |-> <<>>,
                 EnrichedABI |-> MkABI([n \in 1..Len(a.Events) |-> ZeroEventItem],
                                       [n \in 1..Len(a.Functions) |-> ZeroFunctionItem],
                                       [n \in 1..Len(a.Errors) |-> ZeroErrorItem])],
     at |-> AtEvents(a, 1)]

-----------------------------------------------------------------------------
(* The ABIs the model resolves. *)

StrX == <<"x">>
Names == {EmptyString, StrX}

\* Parameters without components: uint256, named or not.
LeafValues == {MkValue(n, StrUint256, StrUint256, <<>>) : n \in Names}

\* All parameter trees of exactly n nodes: leaves, and tuple / tuple[] nodes
\* (named or not, without internalType) over non-empty lists of smaller trees.
RECURSIVE ValuesOfSize(_)
RECURSIVE ListsOfSize(_)
ValuesOfSize(n) ==
    IF n = 1 THEN LeafValues
    ELSE {MkValue(nm, ty, EmptyString, cs) :
            nm \in Names, ty \in {StrTuple, StrTupleArray}, cs \in ListsOfSize(n - 1)}

ListsOfSize(n) ==
    UNION {{<<v>> \o rest : v \in ValuesOfSize(m),
                            rest \in IF m = n THEN {<<>>} ELSE ListsOfSize(n - m)} :
           m \in 1..n}

TreeValues == UNION {ValuesOfSize(n) : n \in 1..MaxNodes}

\* ABIs with one item that has one parameter, at each of the four places a
\* parameter can be.
SingleABIs ==
    {MkABI(<<MkEventItem("E", <<MkEventArgument(v, b)>>, b)>>, <<>>, <<>>) :
        v \in TreeValues, b \in BOOLEAN}
    \cup {MkABI(<<>>, <<MkFunctionItem("f", <<v>>, <<>>, "view")>>, <<>>) : v \in TreeValues}
    \cup {MkABI(<<>>, <<MkFunctionItem("f", <<>>, <<v>>, "view")>>, <<>>) : v \in TreeValues}
    \cup {MkABI(<<>>, <<>>, <<MkErrorItem("R", <<v>>)>>) : v \in TreeValues}

StrStructS == <<"s", "t", "r", "u", "c", "t", " ", "S">>
StrStructLSArray == <<"s", "t", "r", "u", "c", "t", " ", "L", ".", "S", "[", "]">>
LeafX == MkValue(StrX, StrUint256, StrUint256, <<>>)
LeafUnnamed == MkValue(EmptyString, StrUint256, StrUint256, <<>>)

\* Five parameter shapes: an unnamed array of scalars, a tuple without
\* components, an unnamed array of structs, a struct of two structs, and a
\* parameter with a component whose type string is not a tuple's.
ShapeValues ==
    {MkValue(EmptyString, StrUint256Array, StrUint256Array, <<>>),
     MkValue(StrX, StrTuple, StrStructS, <<>>),
     MkValue(EmptyString, StrTupleArray, StrStructLSArray, <<LeafX, LeafUnnamed>>),
     MkValue(StrX, StrTuple, StrStructS,
             <<MkValue(EmptyString, StrTuple, EmptyString, <<LeafUnnamed>>),
               MkValue(StrX, StrTupleArray, StrStructLSArray, <<LeafX>>)>>),
     MkValue(StrX, StrUint256Array, EmptyString, <<LeafX>>)}

Repeat(v, n) == [m \in 1..n |-> v]

\* ABIs of e events, f functions and r errors, every item with n inputs vIn
\* (and every function with n outputs vOut).
RepeatedABI(vIn, vOut, e, f, r, n) ==
    MkABI([jj \in 1..e |->
              MkEventItem("E", [m \in 1..n |-> MkEventArgument(vIn, m = 1)], jj = 1)],
          [jj \in 1..f |->
              MkFunctionItem("f", Repeat(vIn, n), Repeat(vOut, n),
                             IF jj = 1 THEN "view" ELSE "payable")],
          [jj \in 1..r |-> MkErrorItem("R", Repeat(vIn, n))])

RepeatedABIs ==
    {RepeatedABI(vIn, vOut, e, f, r, n) :
        vIn \in ShapeValues, vOut \in ShapeValues,
        e \in 0..MaxItems, f \in 0..MaxItems, r \in 0..MaxItems, n \in 0..MaxParams}

StrStructA == <<"s", "t", "r", "u", "c", "t", " ", "A">>
StrStructA1 == <<"s", "t", "r", "u", "c", "t", " ", "A", "1">>
StrStructOnly == <<"s", "t", "r", "u", "c", "t", " ">>
StrStructADot == <<"s", "t", "r", "u", "c", "t", " ", "A", ".">>
StrStructure == <<"s", "t", "r", "u", "c", "t", "u", "r", "e">>

\* internalType strings of the first parameter of a hinted ABI
EventHints == {StrStructA1, StrStructLSArray, StrStructOnly, StrStructADot, StrStructure}

HintedValue(hint) == MkValue(StrX, StrTuple, hint, <<LeafX>>)

\* ABIs of one event, one function with n inputs and one output, and one
\* error; every parameter is a struct of one member with an internalType.
\* And ABIs of one function whose input is a struct of 1 + n such structs.
HintedABIs ==
    {MkABI(<<MkEventItem("E", <<MkEventArgument(HintedValue(h), FALSE)>>, FALSE)>>,
           <<MkFunctionItem("f", Repeat(HintedValue(StrStructA), n),
                            <<HintedValue(o)>>, "view")>>,
           <<MkErrorItem("R", <<HintedValue(StrStructA)>>)>>) :
        h \in EventHints, o \in {StrStructA, EmptyString}, n \in 0..MaxHinted}
    \cup
    {MkABI(<<>>,
           <<MkFunctionItem("f",
                <<MkValue(StrX, StrTuple, StrStructA,
                          <<HintedValue(h)>> \o Repeat(HintedValue(StrStructA), n))>>,
                <<>>, "view")>>,
           <<>>) :
        h \in EventHints, n \in 0..MaxHinted}

-----------------------------------------------------------------------------
(* ResolveCompounds, one loop iteration per step. *)

\* ResolveCompounds is called with a DecodedABI that was not decoded from JSON.
NoJSON == [given |-> FALSE]

Start(a) ==
    LET s == ResolveStart(a)
    IN  /\ rawJSON = NoJSON
        /\ abi = a
        /\ typeCounter = s.typeCounter
        /\ nameCounter = s.nameCounter
        /\ result = s.result
        /\ pc = s.at.pc
        /\ j = s.at.j
        /\ newItem = s.at.newItem
        /\ i = 1
        /\ k = 1
        /\ call = NoCall
        /\ calls = <<>>
        /\ round = 1
        /\ prev = s.result

Init == \E a \in SingleABIs \cup RepeatedABIs : Start(a)

InitHinted == \E a \in HintedABIs : Start(a)

\* control moves to the item at `at`
Goto(at) ==
    /\ pc' = at.pc
    /\ j' = at.j
    /\ newItem' = at.newItem
    /\ i' = 1
    /\ k' = 1

\* one iteration of: for i, inputEventArgument := range eventItem.Inputs
EventInput ==
    /\ pc = "events"
    /\ i <= Len(abi.Events[j].Inputs)
    /\ LET inputEventArgument == abi.Events[j].Inputs[i]
           r == CompoundSingleValue(inputEventArgument.Value, typeCounter,
                                    InputNamePtr(nameCounter))
       IN  /\ newItem' = [newItem EXCEPT !.Inputs[i] =
                             MkEventArgument(r.value, inputEventArgument.Indexed)]
           /\ result' = [result EXCEPT
                             !.CompoundTypes = AppendNewTypes(@, r.newTypes)]
           /\ typeCounter' = r.typeCounter
           /\ nameCounter' = NameCounterAfter(nameCounter, r.namePtr)
           /\ call' = MkCall("eventInput", inputEventArgument.Value, r,
                             typeCounter, nameCounter)
    /\ i' = i + 1
    /\ calls' = Append(calls, [kind |-> "eventInput", item |-> j, index |-> i])
    /\ UNCHANGED <<rawJSON, abi, pc, j, k, round, prev>>

\* result.EnrichedABI.Events[j] = newEventItem, and the next event
EventEnd ==
    /\ pc = "events"
    /\ i > Len(abi.Events[j].Inputs)
    /\ result' = [result EXCEPT !.EnrichedABI.Events[j] = newItem]
    /\ Goto(AtEvents(abi, j + 1))
    /\ UNCHANGED <<rawJSON, abi, typeCounter, nameCounter, call, round, prev, calls>>

\* one iteration of: for i, value := range functionItem.Inputs
FunctionInput ==
    /\ pc = "functions"
    /\ i <= Len(abi.Functions[j].Inputs)
    /\ LET value == abi.Functions[j].Inputs[i]
           r == CompoundSingleValue(value, typeCounter, InputNamePtr(nameCounter))
       IN  /\ newItem' = [newItem EXCEPT !.Inputs[i] = r.value]
           /\ result' = [result EXCEPT
                             !.CompoundTypes = AppendNewTypes(@, r.newTypes)]
           /\ typeCounter' = r.typeCounter
           /\ nameCounter' = NameCounterAfter(nameCounter, r.namePtr)
           /\ call' = MkCall("functionInput", value, r, typeCounter, nameCounter)
    /\ i' = i + 1
    /\ calls' = Append(calls, [kind |-> "functionInput", item |-> j, index |-> i])
    /\ UNCHANGED <<rawJSON, abi, pc, j, k, round, prev>>

\* one iteration of: for i, value := range functionItem.Outputs
FunctionOutput ==
    /\ pc = "functions"
    /\ i > Len(abi.Functions[j].Inputs)
    /\ k <= Len(abi.Functions[j].Outputs)
    /\ LET value == abi.Functions[j].Outputs[k]
           r == CompoundSingleValue(value, typeCounter, OutputNamePtr(nameCounter))
       IN  /\ newItem' = [newItem EXCEPT !.Outputs[k] = r.value]
           /\ result' = [result EXCEPT
                             !.CompoundTypes = AppendNewTypes(@, r.newTypes)]
           /\ typeCounter' = r.typeCounter
           /\ nameCounter' = NameCounterAfter(nameCounter, r.namePtr)
           /\ call' = MkCall("functionOutput", value, r, typeCounter, nameCounter)
    /\ k' = k + 1
    /\ calls' = Append(calls, [kind |-> "functionOutput", item |-> j, index |-> k])
    /\ UNCHANGED <<rawJSON, abi, pc, j, i, round, prev>>

\* result.EnrichedABI.Functions[j] = newFunctionItem, and the next function
FunctionEnd ==
    /\ pc = "functions"
    /\ i > Len(abi.Functions[j].Inputs)
    /\ k > Len(abi.Functions[j].Outputs)
    /\ result' = [result EXCEPT !.EnrichedABI.Functions[j] = newItem]
    /\ Goto(AtFunctions(abi, j + 1))
    /\ UNCHANGED <<rawJSON, abi, typeCounter, nameCounter, call, round, prev, calls>>

\* one iteration of: for i, value := range errorItem.Inputs
ErrorInput ==
    /\ pc = "errors"
    /\ i <= Len(abi.Errors[j].Inputs)
    /\ LET value == abi.Errors[j].Inputs[i]
           r == CompoundSingleValue(value, typeCounter, InputNamePtr(nameCounter))
       IN  /\ newItem' = [newItem EXCEPT !.Inputs[i] = r.value]
           /\ result' = [result EXCEPT
                             !.CompoundTypes = AppendNewTypes(@, r.newTypes)]
           /\ typeCounter' = r.typeCounter
           /\ nameCounter' = NameCounterAfter(nameCounter, r.namePtr)
           /\ call' = MkCall("errorInput", value, r, typeCounter, nameCounter)
    /\ i' = i + 1
    /\ calls' = Append(calls, [kind |-> "errorInput", item |-> j, index |-> i])
    /\ UNCHANGED <<rawJSON, abi, pc, j, k, round, prev>>

\* result.EnrichedABI.Errors[j] = newErrorItem, and the next error
ErrorEnd ==
    /\ pc = "errors"
    /\ i > Len(abi.Errors[j].Inputs)
    /\ result' = [result EXCEPT !.EnrichedABI.Errors[j] = newItem]
    /\ Goto(AtErrors(abi, j + 1))
    /\ UNCHANGED <<rawJSON, abi, typeCounter, nameCounter, call, round, prev, calls>>

\* ResolveCompounds(resolved.EnrichedABI): the enriched ABI is resolved again
ResolveEnriched ==
    /\ pc = "done"
    /\ round = 1
    /\ LET a == result.EnrichedABI
           s == ResolveStart(a)
       IN  /\ abi' = a
           /\ typeCounter' = FreshCounter(typeCounter)
           /\ nameCounter' = FreshCounter(nameCounter)
           /\ result' = s.result
           /\ Goto(s.at)
    /\ call' = NoCall
    /\ calls' = <<>>
    /\ round' = 2
    /\ prev' = result
    /\ UNCHANGED rawJSON

\* ResolveCompounds is called once more with the ABI of round 1, after the
\* run of round 1, of round 2 or of an earlier round 3 has returned.
ResolveAgain ==
    /\ pc = "done"
    /\ LET a == IF round = 1 THEN result.OriginalABI ELSE prev.OriginalABI
           s == ResolveStart(a)
       IN  /\ abi' = a
           /\ typeCounter' = FreshCounter(typeCounter)
           /\ nameCounter' = FreshCounter(nameCounter)
           /\ result' = s.result
           /\ Goto(s.at)
    /\ call' = NoCall
    /\ calls' = <<>>
    /\ round' = 3
    /\ prev' = IF round = 1 THEN result ELSE prev
    /\ UNCHANGED rawJSON

Next ==
    \/ EventInput
    \/ EventEnd
    \/ FunctionInput
    \/ FunctionOutput
    \/ FunctionEnd
    \/ ErrorInput
    \/ ErrorEnd
    \/ ResolveEnriched
    \/ ResolveAgain

Spec == Init /\ [][Next]_vars

\* The single-parameter ABIs, and the repeated ABIs whose inputs and outputs
\* are the same parameter.
InitFair ==
    \E a \in SingleABIs \cup
              {RepeatedABI(v, v, e, f, r, n) :
                  v \in ShapeValues, e \in 0..MaxItems, f \in 0..MaxItems,
                  r \in 0..MaxItems, n \in 0..MaxParams} : Start(a)

\* ResolveCompounds is inside one of its three loops.
Running == pc \in {"events", "functions", "errors"}

\* ResolveCompounds is sequential code: a loop iteration that can run, runs.
\* This is weak fairness of the steps of a run, WF_vars(Running /\ Next), with
\* its enabling condition written out: inside a loop, the next iteration or
\* the loop's exit can always be taken, and it changes the position.
SpecFair ==
    InitFair /\ [][Next]_vars /\ ([]<>(~Running) \/ []<><<Running /\ Next>>_vars)

SpecHinted == InitHinted /\ [][Next]_vars

-----------------------------------------------------------------------------
(* Decode (abi.go), and main's path from the JSON document to ResolveCompounds. *)

\* A JSON document is either not an array of objects, or an array of objects.
\* An object has the keys of an ABI item (absent keys hold the zero value);
\* wellTyped is FALSE when the value of one of the keys other than "type" has
\* a JSON kind that the Go field of that name cannot take.
MkJSON(array, items) == [given |-> TRUE, array |-> array, items |-> items]

MkRawParam(value, indexed) == [Value |-> value, indexed |-> indexed]

MkRawObject(type, name, inputs, outputs, stateMutability, anonymous, wellTyped) ==
    [type |-> type, name |-> name, inputs |-> inputs, outputs |-> outputs,
     stateMutability |-> stateMutability, anonymous |-> anonymous,
     wellTyped |-> wellTyped]

\* json.Unmarshal(rawJSON, &typeDeclarations): each object's "type"
UnmarshalTypeDeclarations(json) ==
    IF ~json.array
    THEN [err |-> TRUE, typeDeclarations |-> <<>>]
    ELSE [err |-> FALSE,
          typeDeclarations |-> [n \in 1..Len(json.items) |-> [Type |-> json.items[n].type]]]

\* json.Unmarshal(rawJSON, &rawMessages)
UnmarshalRawMessages(json) ==
    IF ~json.array
    THEN [err |-> TRUE, rawMessages |-> <<>>]
    ELSE [err |-> FALSE, rawMessages |-> json.items]

\* json.Unmarshal(rawMessages[i], &eventItem): the fields of EventItem
UnmarshalEventItem(raw) ==
    IF ~raw.wellTyped
    THEN [err |-> TRUE, item |-> ZeroEventItem]
    ELSE [err |-> FALSE,
          item |-> [Type |-> raw.type, Name |-> raw.name,
                    Inputs |-> [n \in 1..Len(raw.inputs) |->
                                   MkEventArgument(raw.inputs[n].Value,
                                                   raw.inputs[n].indexed)],
                    Anonymous |-> raw.anonymous]]

\* json.Unmarshal(rawMessages[i], &functionItem): the fields of FunctionItem
UnmarshalFunctionItem(raw) ==
    IF ~raw.wellTyped
    THEN [err |-> TRUE, item |-> ZeroFunctionItem]
    ELSE [err |-> FALSE,
          item |-> [Type |-> raw.type, Name |-> raw.name,
                    Inputs |-> [n \in 1..Len(raw.inputs) |-> raw.inputs[n].Value],
                    Outputs |-> [n \in 1..Len(raw.outputs) |-> raw.outputs[n].Value],
                    StateMutability |-> raw.stateMutability]]

\* json.Unmarshal(rawMessages[i], &errorItem): the fields of ErrorItem
UnmarshalErrorItem(raw) ==
    IF ~raw.wellTyped
    THEN [err |-> TRUE, item |-> ZeroErrorItem]
    ELSE [err |-> FALSE,
          item |-> [Type |-> raw.type, Name |-> raw.name,
                    Inputs |-> [n \in 1..Len(raw.inputs) |-> raw.inputs[n].Value]]]

\* for _, item := range typeDeclarations { if item.Type == "event" { numEvents++ }
\* else if ... }: the number of declarations of one type
RECURSIVE CountTypes(_, _, _)
CountTypes(typeDeclarations, type, at) ==
    IF at > Len(typeDeclarations) THEN 0
    ELSE (IF typeDeclarations[at].Type = type THEN 1 ELSE 0)
         + CountTypes(typeDeclarations, type, at + 1)

\* if num > 0 { make([]Item, num) }
MakeItems(num, zero) == [n \in 1..num |-> zero]

\* Faulty variant of StoreItem: every item is stored in the first place.
StoreItemFirst(items, current, item) == [items EXCEPT ![1] = item]

\* decodedABI.Events[currentEvent] = eventItem (current counts from 0)
StoreItem(items, current, item) == [items EXCEPT ![current + 1] = item]

\* for i, declaration := range typeDeclarations { if declaration.Type == "event"
\* { ... } else if declaration.Type == "function" { ... } else if
\* declaration.Type == "error" { ... } }; return decodedABI, nil
RECURSIVE DecodeItems(_, _, _, _, _, _, _)
DecodeItems(typeDeclarations, rawMessages, at, decodedABI, currentEvent, currentFunction, currentError) ==
    IF at > Len(typeDeclarations)
    THEN [decodedABI |-> decodedABI, err |-> FALSE]
    ELSE LET declaration == typeDeclarations[at]
         IN  IF declaration.Type = "event"
             THEN LET u == UnmarshalEventItem(rawMessages[at])
                  IN  IF u.err
                      THEN [decodedABI |-> decodedABI, err |-> TRUE]
                      ELSE DecodeItems(typeDeclarations, rawMessages, at + 1,
                               [decodedABI EXCEPT
                                   !.Events = StoreItem(@, currentEvent, u.item)],
                               currentEvent + 1, currentFunction, currentError)
             ELSE IF declaration.Type = "function"
             THEN LET u == UnmarshalFunctionItem(rawMessages[at])
                  IN  IF u.err
                      THEN [decodedABI |-> decodedABI, err |-> TRUE]
                      ELSE DecodeItems(typeDeclarations, rawMessages, at + 1,
                               [decodedABI EXCEPT
                                   !.Functions = StoreItem(@, currentFunction, u.item)],
                               currentEvent, currentFunction + 1, currentError)
             ELSE IF declaration.Type = "error"
             THEN LET u == UnmarshalErrorItem(rawMessages[at])
                  IN  IF u.err
                      THEN [decodedABI |-> decodedABI, err |-> TRUE]
                      ELSE DecodeItems(typeDeclarations, rawMessages, at + 1,
                               [decodedABI EXCEPT
                                   !.Errors = StoreItem(@, currentError, u.item)],
                               currentEvent, currentFunction, currentError + 1)
             ELSE DecodeItems(typeDeclarations, rawMessages, at + 1, decodedABI,
                              currentEvent, currentFunction, currentError)

\* var decodedABI DecodedABI
ZeroABI == MkABI(<<>>, <<>>, <<>>)

\* func Decode(rawJSON []byte) (DecodedABI, error)
Decode(json) ==
    LET types == UnmarshalTypeDeclarations(json)
        messages == UnmarshalRawMessages(json)
    IN  IF types.err THEN [decodedABI |-> ZeroABI, err |-> TRUE]
        ELSE IF messages.err THEN [decodedABI |-> ZeroABI, err |-> TRUE]
        ELSE LET numEvents == CountTypes(types.typeDeclarations, "event", 1)
                 numFunctions == CountTypes(types.typeDeclarations, "function", 1)
                 numErrors == CountTypes(types.typeDeclarations, "error", 1)
             IN  DecodeItems(types.typeDeclarations, messages.rawMessages, 1,
                     MkABI(MakeItems(numEvents, ZeroEventItem),
                           MakeItems(numFunctions, ZeroFunctionItem),
                           MakeItems(numErrors, ZeroErrorItem)),
                     0, 0, 0)

\* The objects of the JSON documents: an event, a function, an error, a
\* constructor, a receive function, and a function whose "inputs" is not an
\* array. The object at place p is named after p.
RawKinds == {"event", "function", "error", "constructor", "receive", "illTyped"}

RawObject(kind, p) ==
    CASE kind = "event" ->
            MkRawObject("event", "E" \o ToString(p), <<MkRawParam(LeafX, TRUE)>>,
                        <<>>, "", TRUE, TRUE)
      [] kind = "function" ->
            MkRawObject("function", "f" \o ToString(p),
                        <<MkRawParam(MkValue(StrX, StrTuple, StrStructS, <<LeafUnnamed>>),
                                     FALSE)>>,
                        <<MkRawParam(LeafUnnamed, FALSE)>>, "view", FALSE, TRUE)
      [] kind = "error" ->
            MkRawObject("error", "R" \o ToString(p), <<MkRawParam(LeafX, FALSE)>>,
                        <<>>, "", FALSE, TRUE)
      [] kind = "constructor" ->
            MkRawObject("constructor", "", <<MkRawParam(LeafX, FALSE)>>,
                        <<>>, "nonpayable", FALSE, TRUE)
      [] kind = "receive" ->
            MkRawObject("receive", "", <<>>, <<>>, "payable", FALSE, TRUE)
      [] kind = "illTyped" ->
            MkRawObject("function", "f" \o ToString(p), <<>>, <<>>, "view", FALSE, FALSE)

\* The JSON documents: one that is not an array, and the arrays of at most
\* MaxRaw objects.
RawJSONs ==
    {MkJSON(FALSE, <<>>)} \cup
    UNION {{MkJSON(TRUE, [p \in 1..n |-> RawObject(c[p], p)]) :
               c \in [1..n -> RawKinds]} : n \in 0..MaxRaw}

\* main: contents read, nothing decoded yet
InitDecode ==
    /\ rawJSON \in RawJSONs
    /\ pc = "decode"
    /\ abi = ZeroABI
    /\ typeCounter = 0
    /\ nameCounter = 0
    /\ result = [OriginalABI |-> ZeroABI, CompoundTypes |-> <<>>, EnrichedABI |-> ZeroABI]
    /\ prev = [OriginalABI |-> ZeroABI, CompoundTypes |-> <<>>, EnrichedABI |-> ZeroABI]
    /\ j = 1
    /\ i = 1
    /\ k = 1
    /\ newItem = NoItem
    /\ call = NoCall
    /\ calls = <<>>
    /\ round = 1

\* abi, decodeErr := Decode(contents); if decodeErr != nil { log.Fatalf(...) };
\* ...; GenerateInterface(..., abi, ...) calls ResolveCompounds(abi)
DecodeABI ==
    /\ pc = "decode"
    /\ LET d == Decode(rawJSON)
           s == ResolveStart(d.decodedABI)
       IN  /\ abi' = d.decodedABI
           /\ IF d.err
              THEN /\ pc' = "failed"
                   /\ UNCHANGED <<j, i, k, newItem, typeCounter, nameCounter, result, prev>>
              ELSE /\ Goto(s.at)
                   /\ typeCounter' = s.typeCounter
                   /\ nameCounter' = s.nameCounter
                   /\ result' = s.result
                   /\ prev' = s.result
    /\ UNCHANGED <<rawJSON, call, round, calls>>

NextDecode ==
    \/ DecodeABI
    \/ Next

SpecDecode == InitDecode /\ [][NextDecode]_vars

-----------------------------------------------------------------------------
(* SolidityTypeRequiresLocation and the template's use of it (interface.go). *)

StrString == <<"s", "t", "r", "i", "n", "g">>
StrBytes == <<"b", "y", "t", "e", "s">>
StrBool == <<"b", "o", "o", "l">>
StrUint == <<"u", "i", "n", "t">>
StrAddress == <<"a", "d", "d", "r", "e", "s", "s">>

\* func SolidityTypeRequiresLocation(solidityType string) bool
SolidityTypeRequiresLocation(solidityType) ==
    IF HasSuffix(solidityType, StrArray) THEN TRUE
    ELSE IF solidityType = StrString THEN TRUE
    ELSE IF solidityType = StrBytes THEN TRUE
    ELSE IF solidityType = StrBool THEN FALSE
    ELSE IF HasPrefix(solidityType, StrUint) THEN FALSE
    ELSE IF solidityType = StrAddress THEN FALSE
    ELSE IF HasPrefix(solidityType, StrBytes) THEN FALSE
    ELSE TRUE

\* {{.Type}}{{if (needsMemory .Type)}} memory{{end}}: the template asks for
\* every input and output of every function of the EnrichedABI
NeedsMemory(value) == SolidityTypeRequiresLocation(value.Type)

\* The elementary types of the parameters: value types, string and bytes.
ElementaryTypes ==
    {StrBool, StrAddress, StrUint, StrUint256, <<"u", "i", "n", "t", "8">>, <<"i", "n", "t">>, <<"i", "n", "t", "8">>, <<"i", "n", "t", "2", "5", "6">>,
     <<"b", "y", "t", "e", "s", "1">>, <<"b", "y", "t", "e", "s", "3", "2">>, StrBytes, StrString}

\* Array suffixes: none, dynamic, fixed-size, and arrays of arrays.
ArraySuffixes == {EmptyString, StrArray, <<"[", "3", "]">>, <<"[", "3", "]", "[", "]">>, <<"[", "]", "[", "3", "]">>}

\* A parameter without components of each elementary type and array suffix,
\* and a struct and an array of structs.
TypedValues ==
    {MkValue(StrX, t \o s, t \o s, <<>>) : t \in ElementaryTypes, s \in ArraySuffixes}
    \cup
    {MkValue(StrX, StrTuple \o s, StrStructS \o s, <<LeafX>>) :
        s \in ArraySuffixes}

\* ABIs of one event, one function and one error with the same parameter
\* (the function has it as its input and, unnamed or not, as its output).
TypedABIs ==
    {MkABI(<<MkEventItem("E", <<MkEventArgument(v, FALSE)>>, FALSE)>>,
           <<MkFunctionItem("f", <<v>>, <<[v EXCEPT !.Name = n]>>, "view")>>,
           <<MkErrorItem("R", <<v>>)>>) :
        v \in TypedValues, n \in {EmptyString, StrX}}

InitTyped == \E a \in TypedABIs : Start(a)

SpecTyped == InitTyped /\ [][Next]_vars

-----------------------------------------------------------------------------
(* ABIs whose parameters have members named like placeholders. *)

StrAttribute0 == <<"A", "t", "t", "r", "i", "b", "u", "t", "e", "0">>
StrAttribute1 == <<"A", "t", "t", "r", "i", "b", "u", "t", "e", "1">>

\* The names of the components: none, "x", and two names GenerateName makes.
ComponentNames == {EmptyString, StrX, StrAttribute0, StrAttribute1}

\* A struct of at most MaxNodes - 1 scalars with names from ComponentNames.
NamedValues ==
    UNION {{MkValue(StrX, StrTuple, StrStructS,
                    [c \in 1..n |-> MkValue(names[c], StrUint256, StrUint256, <<>>)]) :
               names \in [1..n -> ComponentNames]} : n \in 1..MaxNodes - 1}

\* ABIs of one event, one function and one error with the same parameter.
NamedABIs ==
    {MkABI(<<MkEventItem("E", <<MkEventArgument(v, FALSE)>>, FALSE)>>,
           <<MkFunctionItem("f", <<v>>, <<v>>, "view")>>,
           <<MkErrorItem("R", <<v>>)>>) :
        v \in NamedValues}

InitNamed == \E a \in NamedABIs : Start(a)

SpecNamed == InitNamed /\ [][Next]_vars

-----------------------------------------------------------------------------
(* FindCompoundTypes (interface.go). *)

\* Faulty variant of CompoundIndicesOfItem: every parameter is listed.
CompoundIndicesOfItemAll(values, itemIndex, at) ==
    [m \in 1..Len(values) |-> [ItemIndex |-> itemIndex - 1, ValueIndex |-> m - 1]]

\* for j, input := range item.Inputs { if input.IsCompoundType() { append } }
RECURSIVE CompoundIndicesOfItem(_, _, _)
CompoundIndicesOfItem(values, itemIndex, at) ==
    IF at > Len(values) THEN <<>>
    ELSE (IF IsCompoundType(values[at])
          THEN <<[ItemIndex |-> itemIndex - 1, ValueIndex |-> at - 1]>>
          ELSE <<>>)
         \o CompoundIndicesOfItem(values, itemIndex, at + 1)

\* for i, item := range items { ... }
RECURSIVE CompoundIndices(_, _)
CompoundIndices(lists, at) ==
    IF at > Len(lists) THEN <<>>
    ELSE CompoundIndicesOfItem(lists[at], at, 1) \o CompoundIndices(lists, at + 1)

EventValues(eventItem) ==
    [n \in 1..Len(eventItem.Inputs) |-> eventItem.Inputs[n].Value]

\* func FindCompoundTypes(abi DecodedABI) (eventInputs, functionInputs,
\* functionOutputs, errorInputs []ItemValueIndex)
FindCompoundTypes(a) ==
    [eventInputs |->
        CompoundIndices([n \in 1..Len(a.Events) |-> EventValues(a.Events[n])], 1),
     functionInputs |->
        CompoundIndices([n \in 1..Len(a.Functions) |-> a.Functions[n].Inputs], 1),
     functionOutputs |->
        CompoundIndices([n \in 1..Len(a.Functions) |-> a.Functions[n].Outputs], 1),
     errorInputs |->
        CompoundIndices([n \in 1..Len(a.Errors) |-> a.Errors[n].Inputs], 1)]

-----------------------------------------------------------------------------
(* Vocabulary of the properties. *)

\* The run of ResolveCompounds on a decoded ABI has returned.
Resolved == pc = "done" /\ round = 1

\* A CompoundSingleValue call of a parameter loop has returned.
Called == call.kind # "none"
InputKinds == {"eventInput", "functionInput", "errorInput"}

RECURSIVE Flatten(_)
Flatten(lists) ==
    IF lists = <<>> THEN <<>> ELSE Head(lists) \o Flatten(Tail(lists))

\* The top-level parameters of an ABI in the order events, functions (inputs
\* then outputs), errors.
ParamsInOrder(a) ==
    Flatten([n \in 1..Len(a.Events) |-> EventValues(a.Events[n])])
    \o Flatten([n \in 1..Len(a.Functions) |->
                    a.Functions[n].Inputs \o a.Functions[n].Outputs])
    \o Flatten([n \in 1..Len(a.Errors) |-> a.Errors[n].Inputs])

\* Number of nodes with components in a parameter tree.
RECURSIVE CompoundCount(_)
RECURSIVE CompoundCountOfList(_)
CompoundCount(v) ==
    IF Len(v.Components) = 0 THEN 0 ELSE 1 + CompoundCountOfList(v.Components)
CompoundCountOfList(values) ==
    IF values = <<>> THEN 0
    ELSE CompoundCount(Head(values)) + CompoundCountOfList(Tail(values))

\* type is the definition made for the node v: named after v's internalType,
\* one member per component of v, each carrying that component's name.
Describes(type, v) ==
    /\ HasPrefix(type.TypeName, ParseInternalType(v.InternalType))
    /\ Len(type.Members) = Len(v.Components)
    /\ \A m \in 1..Len(v.Components) :
          type.Members[m].Value.Name = v.Components[m].Name

\* types lists the definitions of the compound nodes of v with every node
\* after its descendants and the children's definitions in child order.
RECURSIVE BottomUp(_, _)
BottomUp(v, types) ==
    /\ Len(types) = CompoundCount(v)
    /\ Len(types) > 0
    /\ Describes(types[Len(types)], v)
    /\ \A c \in 1..Len(v.Components) :
          LET before == CompoundCountOfList(SubSeq(v.Components, 1, c - 1))
              own == CompoundCount(v.Components[c])
          IN  own > 0 =>
                 BottomUp(v.Components[c], SubSeq(types, before + 1, before + own))

RECURSIVE HasUnnamedComponent(_)
HasUnnamedComponent(v) ==
    \E c \in 1..Len(v.Components) :
        \/ v.Components[c].Name = EmptyString
        \/ HasUnnamedComponent(v.Components[c])

HasEmptyMemberName(types) ==
    \E t \in 1..Len(types) : \E m \in 1..Len(types[t].Members) :
        types[t].Members[m].Name = EmptyString

IsTupleTyped(v) == v.Type \in {StrTuple, StrTupleArray}

IdentStart == Letters \cup {"_", "$"}
IdentPart == IdentStart \cup DigitChars
ValidIdentifier(s) ==
    /\ Len(s) > 0
    /\ s[1] \in IdentStart
    /\ \A n \in 1..Len(s) : s[n] \in IdentPart

-----------------------------------------------------------------------------
(* Properties. *)

\* C1: when ResolveCompounds has returned, no parameter of EnrichedABI is
\* compound: FindCompoundTypes of EnrichedABI is four empty lists.
C1_NoCompoundInEnrichedABI ==
    pc = "done" =>
        /\ FindCompoundTypes(result.EnrichedABI) =
              [eventInputs |-> <<>>, functionInputs |-> <<>>,
               functionOutputs |-> <<>>, errorInputs |-> <<>>]
        /\ \A n \in 1..Len(ParamsInOrder(result.EnrichedABI)) :
              ~IsCompoundType(ParamsInOrder(result.EnrichedABI)[n])

C1_Witness ==
    /\ Resolved
    /\ LET found == FindCompoundTypes(abi)
       IN  /\ Len(found.eventInputs) > 1
           /\ Len(found.functionInputs) > 1
           /\ Len(found.functionOutputs) > 1
           /\ Len(found.errorInputs) > 1

\* C2: resolving the EnrichedABI of a run again synthesizes no type and
\* returns an EnrichedABI equal to the one resolved.
C2_FlatteningIdempotent ==
    (pc = "done" /\ round = 2) =>
        /\ result.CompoundTypes = <<>>
        /\ result.EnrichedABI = prev.EnrichedABI

C2_Witness ==
    /\ pc = "done"
    /\ round = 2
    /\ Len(prev.CompoundTypes) > 2
    /\ prev.EnrichedABI # prev.OriginalABI

\* C3: all type names synthesized in one run are pairwise distinct, whatever
\* the internalType hints of the compound parameters.
C3_TypeNamesDistinct ==
    \A m, n \in 1..Len(result.CompoundTypes) :
        m # n => result.CompoundTypes[m].TypeName # result.CompoundTypes[n].TypeName

\* C4: the list CompoundSingleValue returns for a compound parameter holds the
\* definition of every compound node after those of its descendants, the
\* parameter's own definition last, and the definitions of child i before
\* those of child i+1.
C4_BottomUpOrder ==
    (Called /\ IsCompoundType(call.val)) => BottomUp(call.val, call.newTypes)

C4_Witness ==
    /\ Called
    /\ Len(call.val.Components) > 1
    /\ IsCompoundType(call.val.Components[1])
    /\ IsCompoundType(call.val.Components[2])
    /\ Len(call.newTypes) = 3

\* C5: the replacement of a compound parameter v has v's name, no components,
\* and the type T of the last returned definition, followed by "[]" exactly
\* when v's type ends in "[]".
C5_ReplacementParameter ==
    (Called /\ IsCompoundType(call.val)) =>
        LET T == call.newTypes[Len(call.newTypes)].TypeName
        IN  /\ call.value.Name = call.val.Name
            /\ call.value.Components = <<>>
            /\ call.value.Type =
                  IF HasSuffix(call.val.Type, StrArray) THEN T \o StrArray ELSE T

C5_Witness ==
    /\ Called
    /\ IsCompoundType(call.val)
    /\ call.val.Type = StrTupleArray
    /\ call.val.Name # EmptyString

\* C6 as stated: a compound function output whose own name is empty yields a
\* definition with at least one member whose name is empty.
C6_UnnamedOutputHasEmptyMember ==
    (call.kind = "functionOutput" /\ IsCompoundType(call.val)
        /\ call.val.Name = EmptyString)
    => HasEmptyMemberName(call.newTypes)

\* C6 amended: a compound function output that has, at any depth, a component
\* whose name is empty yields a definition with a member whose name is empty.
C6_OutputWithUnnamedComponent ==
    (call.kind = "functionOutput" /\ HasUnnamedComponent(call.val))
    => HasEmptyMemberName(call.newTypes)

C6_Witness ==
    /\ call.kind = "functionOutput"
    /\ call.val.Name # EmptyString
    /\ call.val.Components[1].Name # EmptyString
    /\ HasUnnamedComponent(call.val)

\* C7: for an event input, a function input or an error input, every member
\* of every definition made for the parameter, at every depth, has a
\* non-empty name.
C7_InputMembersNamed ==
    (call.kind \in InputKinds) => ~HasEmptyMemberName(call.newTypes)

C7_Witness ==
    /\ call.kind \in InputKinds
    /\ Len(call.newTypes) > 1
    /\ \E c \in 1..Len(call.val.Components) :
          HasUnnamedComponent(call.val.Components[c])

\* C8 as stated: a tuple-typed parameter without components yields exactly
\* one definition, with an empty member list.
C8_EmptyTupleYieldsOneType ==
    (Called /\ IsTupleTyped(call.val) /\ Len(call.val.Components) = 0)
    => /\ Len(call.newTypes) = 1
       /\ call.newTypes[1].Members = <<>>

\* C8 amended: a tuple-typed parameter without components is not compound:
\* it is returned unchanged with no definition.
C8_EmptyTupleUnchanged ==
    (Called /\ IsTupleTyped(call.val) /\ Len(call.val.Components) = 0)
    => /\ call.newTypes = <<>>
       /\ call.value = call.val

C8_Witness ==
    /\ Called
    /\ IsTupleTyped(call.val)
    /\ Len(call.val.Components) = 0

\* C9: every synthesized type name is a valid identifier and contains no "[]".
C9_TypeNamesAreIdentifiers ==
    \A n \in 1..Len(result.CompoundTypes) :
        LET name == result.CompoundTypes[n].TypeName
        IN  /\ ValidIdentifier(name)
            /\ \A m \in 1..Len(name) - 1 : SubSeq(name, m, m + 1) # StrArray

\* C10: CompoundTypes is the concatenation of the lists made for the
\* parameters in the order events, functions (inputs then outputs), errors:
\* the definitions of the t-th parameter follow those of all parameters
\* before it, and the t-th parameter of EnrichedABI names the last of them.
C10_TraversalOrder ==
    Resolved =>
        LET params == ParamsInOrder(abi)
            enriched == ParamsInOrder(result.EnrichedABI)
        IN  /\ Len(result.CompoundTypes) = CompoundCountOfList(params)
            /\ \A t \in 1..Len(params) :
                  LET before == CompoundCountOfList(SubSeq(params, 1, t - 1))
                      own == CompoundCount(params[t])
                      types == SubSeq(result.CompoundTypes, before + 1, before + own)
                  IN  own > 0 =>
                         /\ BottomUp(params[t], types)
                         /\ enriched[t].Type =
                               IF HasSuffix(params[t].Type, StrArray)
                               THEN types[own].TypeName \o StrArray
                               ELSE types[own].TypeName

C10_Witness ==
    /\ Resolved
    /\ Len(abi.Events) > 1
    /\ Len(abi.Functions) > 1
    /\ Len(abi.Errors) > 1
    /\ Len(FindCompoundTypes(abi).eventInputs) > 2
    /\ Len(FindCompoundTypes(abi).functionInputs) > 2
    /\ Len(FindCompoundTypes(abi).functionOutputs) > 2
    /\ Len(FindCompoundTypes(abi).errorInputs) > 2

\* C11: ResolveCompounds leaves the non-parameter fields of every item as they
\* were: Type, Name, Anonymous and each input's Indexed flag of an event,
\* Type, Name and StateMutability of a function, Type and Name of an error.
C11_MetadataPreserved ==
    Resolved =>
        LET o == result.OriginalABI
            e == result.EnrichedABI
        IN  /\ Len(e.Events) = Len(o.Events)
            /\ Len(e.Functions) = Len(o.Functions)
            /\ Len(e.Errors) = Len(o.Errors)
            /\ \A n \in 1..Len(o.Events) :
                  /\ e.Events[n].Type = o.Events[n].Type
                  /\ e.Events[n].Name = o.Events[n].Name
                  /\ e.Events[n].Anonymous = o.Events[n].Anonymous
                  /\ Len(e.Events[n].Inputs) = Len(o.Events[n].Inputs)
                  /\ \A m \in 1..Len(o.Events[n].Inputs) :
                        e.Events[n].Inputs[m].Indexed = o.Events[n].Inputs[m].Indexed
            /\ \A n \in 1..Len(o.Functions) :
                  /\ e.Functions[n].Type = o.Functions[n].Type
                  /\ e.Functions[n].Name = o.Functions[n].Name
                  /\ e.Functions[n].StateMutability = o.Functions[n].StateMutability
            /\ \A n \in 1..Len(o.Errors) :
                  /\ e.Errors[n].Type = o.Errors[n].Type
                  /\ e.Errors[n].Name = o.Errors[n].Name

C11_Witness ==
    /\ Resolved
    /\ Len(abi.Events) > 1
    /\ abi.Events[1].Anonymous
    /\ ~abi.Events[2].Anonymous
    /\ Len(abi.Events[1].Inputs) > 1
    /\ abi.Events[1].Inputs[1].Indexed
    /\ ~abi.Events[1].Inputs[2].Indexed
    /\ IsCompoundType(abi.Events[1].Inputs[1].Value)
    /\ Len(abi.Functions) > 1
    /\ abi.Functions[1].StateMutability # abi.Functions[2].StateMutability
    /\ Len(abi.Errors) > 0

\* C12: no deduplication: CompoundTypes has one entry for every node with
\* components, at every depth, of the event inputs, function inputs,
\* function outputs and error inputs, also when nodes are identical.
C12_OneTypePerCompoundNode ==
    Resolved =>
        /\ Len(result.CompoundTypes) = CompoundCountOfList(ParamsInOrder(abi))
        /\ typeCounter = CompoundCountOfList(ParamsInOrder(abi))

\* the same compound parameter occurs in an event and in a function
C12_Witness ==
    /\ Resolved
    /\ Len(abi.Events) > 0
    /\ Len(abi.Functions) > 0
    /\ Len(abi.Events[1].Inputs) > 0
    /\ Len(abi.Functions[1].Inputs) > 0
    /\ IsCompoundType(abi.Events[1].Inputs[1].Value)
    /\ abi.Events[1].Inputs[1].Value = abi.Functions[1].Inputs[1]
    /\ Len(result.CompoundTypes) > 1

\* the members of a type that stand for a component without a name
UnnamedMembers(type) ==
    {m \in 1..Len(type.Members) : type.Members[m].Value.Name = EmptyString}

\* C13: with placeholder naming (event, function and error inputs), the names
\* given to the unnamed children of one CompoundType are pairwise distinct,
\* each being "Attribute" followed by a value the name counter had during
\* the call.
C13_PlaceholdersDistinct ==
    (call.kind \in InputKinds) =>
        \A t \in 1..Len(call.newTypes) :
            LET type == call.newTypes[t]
            IN  /\ \A m \in UnnamedMembers(type) :
                      \E c \in call.nameCounterBefore..(nameCounter - 1) :
                          type.Members[m].Name = StrAttribute \o Dec(c)
                /\ \A m, n \in UnnamedMembers(type) :
                      m # n => type.Members[m].Name # type.Members[n].Name

C13_Witness ==
    /\ call.kind \in InputKinds
    /\ \E t \in 1..Len(call.newTypes) :
          Cardinality(UnnamedMembers(call.newTypes[t])) > 2

\* C14: CompoundSingleValue of a parameter without components returns the
\* parameter itself (name, type, internal type) and no new type, and leaves
\* the type counter and the name counter as they were.
C14_BaseCase ==
    (Called /\ Len(call.val.Components) = 0) =>
        /\ call.value = call.val
        /\ call.newTypes = <<>>
        /\ typeCounter = call.typeCounterBefore
        /\ nameCounter = call.nameCounterBefore

C14_Witness ==
    /\ call.kind \in InputKinds
    /\ Len(call.val.Components) = 0
    /\ call.val.Name = EmptyString
    /\ call.val.InternalType # EmptyString
    /\ call.typeCounterBefore > 1

\* The last of types has one member per component of v, in order: a named
\* component keeps its name, a component without components is the member's
\* value as it is, and a compound component is replaced by a parameter of
\* the type made for it ("[]" kept); the same holds for the components.
RECURSIVE MembersMatch(_, _)
MembersMatch(v, types) ==
    LET type == types[Len(types)]
    IN  /\ Len(type.Members) = Len(v.Components)
        /\ \A c \in 1..Len(v.Components) :
              LET child == v.Components[c]
                  member == type.Members[c]
                  before == CompoundCountOfList(SubSeq(v.Components, 1, c - 1))
                  own == CompoundCount(child)
              IN  /\ child.Name # EmptyString => member.Name = child.Name
                  /\ IF own = 0
                     THEN member.Value = child
                     ELSE LET T == types[before + own].TypeName
                          IN  /\ member.Value.Name = child.Name
                              /\ member.Value.Components = <<>>
                              /\ member.Value.Type =
                                    IF HasSuffix(child.Type, StrArray)
                                    THEN T \o StrArray ELSE T
                              /\ MembersMatch(child,
                                    SubSeq(types, before + 1, before + own))

\* C15: the CompoundType made for a compound parameter v has len(v.Components)
\* members in the children's order; member i is named after child i when the
\* child has a name, and its value is the replacement of child i.
C15_MembersFromChildren ==
    (Called /\ Len(call.val.Components) > 0) =>
        /\ Len(call.newTypes) = CompoundCount(call.val)
        /\ MembersMatch(call.val, call.newTypes)

C15_Witness ==
    /\ call.kind \in InputKinds
    /\ Len(call.val.Components) > 1
    /\ Len(call.val.Components[1].Components) = 0
    /\ call.val.Components[1].Name # EmptyString
    /\ Len(call.val.Components[2].Components) > 0
    /\ call.val.Components[2].Type = StrTupleArray

\* C16: the result's OriginalABI is the ABI that was passed, and EnrichedABI
\* has its shape: as many events, functions and errors, and for each item as
\* many inputs (and outputs).
C16_OriginalKeptSameShape ==
    /\ result.OriginalABI = abi
    /\ pc = "done" =>
          LET e == result.EnrichedABI
          IN  /\ Len(e.Events) = Len(abi.Events)
              /\ Len(e.Functions) = Len(abi.Functions)
              /\ Len(e.Errors) = Len(abi.Errors)
              /\ \A n \in 1..Len(abi.Events) :
                    Len(e.Events[n].Inputs) = Len(abi.Events[n].Inputs)
              /\ \A n \in 1..Len(abi.Functions) :
                    /\ Len(e.Functions[n].Inputs) = Len(abi.Functions[n].Inputs)
                    /\ Len(e.Functions[n].Outputs) = Len(abi.Functions[n].Outputs)
              /\ \A n \in 1..Len(abi.Errors) :
                    Len(e.Errors[n].Inputs) = Len(abi.Errors[n].Inputs)

C16_Witness ==
    /\ Resolved
    /\ Len(abi.Events) > 0
    /\ Len(abi.Errors) > 1
    /\ Len(abi.Functions) > 1
    /\ Len(abi.Functions[2].Inputs) > 1
    /\ Len(abi.Functions[2].Outputs) > 1
    /\ result.EnrichedABI # abi

\* a type string without its trailing "[]"
ElementType(type) ==
    IF HasSuffix(type, StrArray) THEN SubSeq(type, 1, Len(type) - 2) ELSE type

\* the entries of CompoundTypes that the type string names
EntriesNamed(type) ==
    {n \in 1..Len(result.CompoundTypes) :
        result.CompoundTypes[n].TypeName = ElementType(type)}

\* C17: definition before use: a member of an entry of CompoundTypes names
\* (ignoring a trailing "[]") only entries before that entry, never the entry
\* itself or a later one; and every parameter of EnrichedABI that replaces a
\* compound parameter names an entry.
C17_DefinitionBeforeUse ==
    /\ \A n \in 1..Len(result.CompoundTypes) :
          \A m \in 1..Len(result.CompoundTypes[n].Members) :
              \A e \in EntriesNamed(result.CompoundTypes[n].Members[m].Value.Type) :
                  e < n
    /\ Resolved =>
          \A t \in 1..Len(ParamsInOrder(abi)) :
              Len(ParamsInOrder(abi)[t].Components) > 0 =>
                  EntriesNamed(ParamsInOrder(result.EnrichedABI)[t].Type) # {}

C20_OutputsGenerateNoPlaceholder ==
    call.kind = "functionOutput" =>
        /\ \A n \in 1..Len(call.newTypes) :
              \A m \in 1..Len(call.newTypes[n].Members) :
                  call.newTypes[n].Members[m].Name =
                      call.newTypes[n].Members[m].Value.Name
        /\ nameCounter = call.nameCounterBefore

\* an output with an unnamed component two levels down was resolved after
\* placeholders had been generated for inputs
C20_Witness ==
    /\ call.kind = "functionOutput"
    /\ call.nameCounterBefore > 0
    /\ nameCounter = call.nameCounterBefore
    /\ Len(call.newTypes) > 1
    /\ \E c \in 1..Len(call.val.Components) :
          /\ call.val.Components[c].Name = EmptyString
          /\ \E d \in 1..Len(call.val.Components[c].Components) :
                call.val.Components[c].Components[d].Name = EmptyString
    /\ \E m \in 1..Len(call.newTypes[1].Members) :
          call.newTypes[1].Members[m].Name = EmptyString

\* Decode has returned without an error, and its result is in abi.
Decoded == rawJSON.given /\ pc \notin {"decode", "failed"} /\ round = 1

\* the objects of the document with one discriminator, in the document's order
Tagged(tag) == SelectSeq(rawJSON.items, LAMBDA raw : raw.type = tag)

ItemTags == {"event", "function", "error"}

\* C19: Decode classifies the items of a well-formed document by their type:
\* Events, Functions and Errors hold exactly the items tagged "event",
\* "function" and "error", in the document's order; items with another tag are
\* ignored; so the three lengths add up to the number of items with one of
\* the three tags.
C19_DecodeClassifies ==
    Decoded =>
        /\ Len(abi.Events) = Len(Tagged("event"))
        /\ \A n \in 1..Len(abi.Events) :
              /\ abi.Events[n].Type = "event"
              /\ abi.Events[n].Name = Tagged("event")[n].name
              /\ abi.Events[n] = UnmarshalEventItem(Tagged("event")[n]).item
        /\ Len(abi.Functions) = Len(Tagged("function"))
        /\ \A n \in 1..Len(abi.Functions) :
              /\ abi.Functions[n].Type = "function"
              /\ abi.Functions[n].Name = Tagged("function")[n].name
              /\ abi.Functions[n] = UnmarshalFunctionItem(Tagged("function")[n]).item
        /\ Len(abi.Errors) = Len(Tagged("error"))
        /\ \A n \in 1..Len(abi.Errors) :
              /\ abi.Errors[n].Type = "error"
              /\ abi.Errors[n].Name = Tagged("error")[n].name
              /\ abi.Errors[n] = UnmarshalErrorItem(Tagged("error")[n]).item
        /\ Len(abi.Events) + Len(abi.Functions) + Len(abi.Errors) =
              Cardinality({p \in 1..Len(rawJSON.items) :
                              rawJSON.items[p].type \in ItemTags})

\* a document of two events with a constructor between them was decoded
C19_Witness ==
    /\ Decoded
    /\ Len(rawJSON.items) = 3
    /\ rawJSON.items[1].type = "event"
    /\ rawJSON.items[2].type = "constructor"
    /\ rawJSON.items[3].type = "event"
    /\ Len(abi.Events) = 2
    /\ abi.Events[2].Name = rawJSON.items[3].name
    /\ abi.Functions = <<>>

\* the name stems GenerateType can take from the nodes of a parameter tree
RECURSIVE Stems(_)
Stems(v) ==
    {ParseInternalType(v.InternalType)} \cup
    UNION {Stems(v.Components[c]) : c \in 1..Len(v.Components)}

\* name is a stem that does not end in a digit, followed by the decimal n
EndsWithCounter(name, n) ==
    /\ HasSuffix(name, Dec(n))
    /\ Len(name) > Len(Dec(n))
    /\ \A d \in 1..Len(Digits) : name[Len(name) - Len(Dec(n))] # Digits[d]

\* C21: within a run the type counter is the number of types made so far: it
\* is 0 when no type has been made, every CompoundSingleValue call advances it
\* by the number of types the call returns, and the entry at index k (from 0)
\* of CompoundTypes is named with the counter value k, whatever item and
\* nesting depth it comes from.
C21_TypeCounterCountsTypes ==
    /\ typeCounter = Len(result.CompoundTypes)
    /\ Called => typeCounter = call.typeCounterBefore + Len(call.newTypes)
    /\ Called =>
          \A m \in 1..Len(call.newTypes) :
              \E s \in Stems(call.val) :
                  call.newTypes[m].TypeName = s \o Dec(call.typeCounterBefore + m - 1)
    /\ \A n \in 1..Len(result.CompoundTypes) :
          EndsWithCounter(result.CompoundTypes[n].TypeName, n - 1)

\* an error input with nested structs was resolved after types had been made
\* for the parameters of earlier items
C21_Witness ==
    /\ call.kind = "errorInput"
    /\ call.typeCounterBefore > 2
    /\ Len(call.newTypes) > 1
    /\ typeCounter = call.typeCounterBefore + Len(call.newTypes)
    /\ Len(abi.Events) > 0
    /\ Len(abi.Functions) > 0

\* A run on the ABI of round 1 has returned after other runs had returned.
ResolvedAgain == pc = "done" /\ round = 3

\* C22: runs are isolated and deterministic: a run of ResolveCompounds on an
\* ABI that was resolved before, whether the run in between was on the same
\* ABI or on another one, returns the CompoundTypes (names and order) and the
\* EnrichedABI of the first run, and every run starts with both counters at 0.
C22_RunsIsolated ==
    /\ ResolvedAgain =>
          /\ result.CompoundTypes = prev.CompoundTypes
          /\ result.EnrichedABI = prev.EnrichedABI
    /\ (round = 3 /\ call = NoCall /\ result.CompoundTypes = <<>>) =>
          (typeCounter = 0 /\ nameCounter = 0)

\* an ABI whose first run made types and placeholders was resolved again
C22_Witness ==
    /\ ResolvedAgain
    /\ Len(prev.CompoundTypes) > 2
    /\ nameCounter > 0
    /\ result.CompoundTypes = prev.CompoundTypes
    /\ prev.EnrichedABI # prev.OriginalABI

\* the places where ResolveCompounds is to call CompoundSingleValue: one for
\* each top-level parameter of the ABI
CallSites(a) ==
    UNION {{[kind |-> "eventInput", item |-> n, index |-> m] :
               m \in 1..Len(a.Events[n].Inputs)} : n \in 1..Len(a.Events)}
    \cup
    UNION {{[kind |-> "functionInput", item |-> n, index |-> m] :
               m \in 1..Len(a.Functions[n].Inputs)} : n \in 1..Len(a.Functions)}
    \cup
    UNION {{[kind |-> "functionOutput", item |-> n, index |-> m] :
               m \in 1..Len(a.Functions[n].Outputs)} : n \in 1..Len(a.Functions)}
    \cup
    UNION {{[kind |-> "errorInput", item |-> n, index |-> m] :
               m \in 1..Len(a.Errors[n].Inputs)} : n \in 1..Len(a.Errors)}

\* every call site was called, and none twice
CalledOnceEach ==
    /\ {calls[n] : n \in 1..Len(calls)} = CallSites(abi)
    /\ Len(calls) = Cardinality(CallSites(abi))
    /\ Len(calls) = Len(ParamsInOrder(abi))

\* C23: resolution is total: every CompoundSingleValue call returns a
\* parameter without components for the parameter it was given, every run of
\* ResolveCompounds comes to its return, and at the return CompoundSingleValue
\* has been called exactly once for each top-level parameter of the ABI.
C23_Total ==
    /\ [](Called => (call.value.Components = <<>> /\ call.value.Name = call.val.Name))
    /\ [](pc = "done" => CalledOnceEach)
    /\ Running ~> (pc = "done")

\* a run over events, functions and errors with nested parameters has returned
C23_Witness ==
    /\ pc = "done"
    /\ round = 1
    /\ Len(calls) > 4
    /\ CalledOnceEach
    /\ Len(result.CompoundTypes) > Len(calls)
    /\ abi.Events # <<>>
    /\ abi.Errors # <<>>

\* the pairs (item index, parameter index), counted from 0, of the parameters
\* with components in a list of parameter lists
CompoundPairs(lists) ==
    UNION {{[ItemIndex |-> n - 1, ValueIndex |-> m - 1] :
               m \in {mm \in 1..Len(lists[n]) : Len(lists[n][mm].Components) > 0}} :
           n \in 1..Len(lists)}

\* list holds exactly the pairs of CompoundPairs(lists), in ascending order of
\* item index and then parameter index (so none twice)
ListsCompoundPairs(list, lists) ==
    /\ {list[n] : n \in 1..Len(list)} = CompoundPairs(lists)
    /\ \A n \in 1..Len(list) : \A m \in 1..Len(list) :
          n < m =>
             \/ list[n].ItemIndex < list[m].ItemIndex
             \/ /\ list[n].ItemIndex = list[m].ItemIndex
                /\ list[n].ValueIndex < list[m].ValueIndex

\* C24: each of the four lists FindCompoundTypes returns (event inputs,
\* function inputs, function outputs, error inputs) holds exactly the pairs
\* (item index, parameter index) of the top-level parameters of its kind that
\* are compound, without duplicates, in ascending order of item index and then
\* parameter index; it is the empty list when there is none.
C24_FindCompoundTypes ==
    LET found == FindCompoundTypes(abi)
    IN  /\ ListsCompoundPairs(found.eventInputs,
               [n \in 1..Len(abi.Events) |-> EventValues(abi.Events[n])])
        /\ ListsCompoundPairs(found.functionInputs,
               [n \in 1..Len(abi.Functions) |-> abi.Functions[n].Inputs])
        /\ ListsCompoundPairs(found.functionOutputs,
               [n \in 1..Len(abi.Functions) |-> abi.Functions[n].Outputs])
        /\ ListsCompoundPairs(found.errorInputs,
               [n \in 1..Len(abi.Errors) |-> abi.Errors[n].Inputs])

\* an ABI of two functions with two parameters each whose inputs are compound
\* and whose outputs are not: four pairs in one list, none in another
C24_Witness ==
    /\ round = 1
    /\ Len(abi.Functions) = 2
    /\ Len(abi.Events) = 2
    /\ LET found == FindCompoundTypes(abi)
       IN  /\ Len(found.functionInputs) = 4
           /\ found.functionInputs[2] = [ItemIndex |-> 0, ValueIndex |-> 1]
           /\ found.functionInputs[3] = [ItemIndex |-> 1, ValueIndex |-> 0]
           /\ found.functionOutputs = <<>>
           /\ Len(abi.Functions[1].Outputs) = 2
           /\ Len(found.eventInputs) = 4

\* s is a string of decimal digits (possibly empty)
IsDigits(s) == \A n \in 1..Len(s) : \E d \in 1..Len(Digits) : s[n] = Digits[d]

StrInt == <<"i", "n", "t">>

\* the Solidity value types: bool, address, uintN, intN, bytesN
IsValueType(type) ==
    \/ type = StrBool
    \/ type = StrAddress
    \/ HasPrefix(type, StrUint) /\ IsDigits(TrimPrefix(type, StrUint))
    \/ HasPrefix(type, StrInt) /\ IsDigits(TrimPrefix(type, StrInt))
    \/ /\ HasPrefix(type, StrBytes)
       /\ Len(type) > Len(StrBytes)
       /\ IsDigits(TrimPrefix(type, StrBytes))

\* the parameters the template asks needsMemory about
FunctionValues(a) ==
    Flatten([n \in 1..Len(a.Functions) |->
                a.Functions[n].Inputs \o a.Functions[n].Outputs])

\* C25: SolidityTypeRequiresLocation is true exactly for the types that need
\* a data location (arrays, dynamic or of fixed size, string, bytes and struct
\* names) and false for every value type (bool, address, uintN, intN, bytesN):
\* for every function parameter of the EnrichedABI the answer is the negation
\* of "is a value type".
C25_LocationExactlyForReferenceTypes ==
    Resolved =>
        \A n \in 1..Len(FunctionValues(result.EnrichedABI)) :
            LET value == FunctionValues(result.EnrichedABI)[n]
            IN  NeedsMemory(value) <=> ~IsValueType(value.Type)

\* the names of values that are not empty are pairwise distinct
NamesDistinct(values) ==
    \A n \in 1..Len(values) : \A m \in 1..Len(values) :
        (n # m /\ values[n].Name # EmptyString) => values[n].Name # values[m].Name

\* C26: with placeholder naming (an input), if the names the children of a
\* compound parameter have are pairwise distinct, the member names of the type
\* made for the parameter are pairwise distinct: a placeholder never equals
\* the name of another member of the type.
C26_MemberNamesDistinct ==
    (/\ call.kind \in InputKinds
     /\ Len(call.val.Components) > 0
     /\ NamesDistinct(call.val.Components)) =>
        LET type == call.newTypes[Len(call.newTypes)]
        IN  \A n \in 1..Len(type.Members) : \A m \in 1..Len(type.Members) :
                n # m => type.Members[n].Name # type.Members[m].Name

====
